---- MODULE Spec2Model ----
(***************************************************************************)
(* Model of simsopt.geo.qfmsurface.QfmSurface: the three evaluators that   *)
(* write a dof vector into the shared surface and combine the label and    *)
(* QFM-residual functionals, and the two drivers that hand those           *)
(* evaluators to scipy.optimize.minimize.                                  *)
(*                                                                         *)
(* Numbers.  Dofs, labels, the target label and the weights are integers.  *)
(* Every scalar the code returns carries the factor 0.5, so scalars are    *)
(* kept doubled: a field named val2 or fun2 holds twice the Python value.  *)
(* Gradients and Hessians hold the Python values themselves.               *)
(***************************************************************************)
EXTENDS Integers, Sequences, FiniteSets, TLC

\* ------------------------------------------------------------------ bounds
MaxNorm == 1          \* dof vectors have non-negative entries summing to at most MaxNorm
MaxEvals == 3         \* cap on the callback evaluations of one solver run

\* ------------------------------------------------------------ input sets
Idx == {1, 2}                         \* positions of the dof vector
DofVectors == {v \in [Idx -> 0..MaxNorm] : v[1] + v[2] <= MaxNorm}
Weights == {1, 2}                     \* constraint_weight values
Configs == {[bs |-> 0, targetlabel |-> 1], [bs |-> 1, targetlabel |-> 2]}
DerivativeOrders == {0, 1, 2, 3}      \* requested orders, valid and invalid

SurfaceRef == "surface"               \* identity of the object held in self.surface
CopyRef == "copy"                     \* identity a copy of the surface would have

ZeroVec == [i \in Idx |-> 0]
ZeroMat == [i \in Idx |-> [j \in Idx |-> 0]]

VARIABLES
  cfg,     \* [bs, targetlabel]: the constructor's arguments
  heap,    \* surface objects by identity; heap[SurfaceRef] is surface.get_dofs()
  ret,     \* outcome of the operation or solver callback that ran last
  run,     \* frame of the driver that is inside minimize(), or NoRun
  rec,     \* <<resdict>> when the operation that ran last was a driver returning it
  held,    \* what a caller kept of the first resdict: <<[x, s]>>, or <<>>
  rep,     \* history: the last call repeated the call before it, argument for argument
  probe,   \* history: the (x, derivatives) whose results memo follows, or NoProbe
  memo     \* history: first results of qfm_label_constraint and qfm_objective at the probe

vars == <<cfg, heap, ret, run, rec, held, rep, probe, memo>>

\* --------------------------------------------------------------- helpers
RECURSIVE SumOver(_, _)
SumOver(f, S) ==
  IF S = {} THEN 0
  ELSE LET i == CHOOSE j \in S : TRUE IN f[i] + SumOver(f, S \ {i})

Sq(n) == n * n

\* ------------------------------------------------- external collaborators
\* Surface.get_dofs / Surface.set_dofs on the object with identity ref.
GetDofs(h, ref) == h[ref]
SetDofs(h, ref, x) == [h EXCEPT ![ref] = x]

\* The label functional bound to the surface: value, gradient, Hessian of
\* the surface's current dofs.
LabelFn(s) == SumOver([i \in Idx |-> Sq(s[i])], Idx) + s[1]
LabelGradFn(s) == [i \in Idx |-> 2 * s[i] + (IF i = 1 THEN 1 ELSE 0)]
LabelHessFn(s) == [i \in Idx |-> [j \in Idx |-> IF i = j THEN 2 ELSE 0]]
LabelJ(h) == LabelFn(h[SurfaceRef])
LabeldJ(h) == LabelGradFn(h[SurfaceRef])
Labeld2J(h) == LabelHessFn(h[SurfaceRef])

\* QfmResidual(s, bs): value, gradient, Hessian of the surface's current dofs.
QfmFn(s, bs) == SumOver([i \in Idx |-> Sq(s[i] - bs)], Idx)
QfmGradFn(s, bs) == [i \in Idx |-> 2 * (s[i] - bs)]
QfmHessFn(s, bs) == [i \in Idx |-> [j \in Idx |-> IF i = j THEN 2 ELSE 0]]
QfmJ(h, bs) == QfmFn(h[SurfaceRef], bs)
QfmdJ(h, bs) == QfmGradFn(h[SurfaceRef], bs)
Qfmd2J(h, bs) == QfmHessFn(h[SurfaceRef], bs)

\* ------------------------------------------------------------ evaluators
\* Outcome of one evaluator call: the heap it leaves, whether the assert
\* raised, how many components it returned (shape), the components, and the
\* surface dofs the functionals saw when they were read (seen).
Raised(h) ==
  [heap |-> h, raised |-> TRUE, shape |-> 0, val2 |-> 0, grad |-> ZeroVec,
   hess |-> ZeroMat, seen |-> h[SurfaceRef]]
Returned(h, n, v2, g, hs) ==
  [heap |-> h, raised |-> FALSE, shape |-> n, val2 |-> v2, grad |-> g,
   hess |-> hs, seen |-> h[SurfaceRef]]

\* Variant: the value is 0.5 * rl, the square forgotten.
LabelConstraintCall_NoSquare(c, h, x, derivatives) ==
  IF derivatives \notin {0, 1} THEN Raised(h)
  ELSE LET h1 == SetDofs(h, SurfaceRef, x)
           l == LabelJ(h1)
           rl == l - c.targetlabel
           val2 == rl
       IN IF derivatives # 0
          THEN LET dl == LabeldJ(h1)
                   dval == [i \in Idx |-> rl * dl[i]]
               IN Returned(h1, 2, val2, dval, ZeroMat)
          ELSE Returned(h1, 1, val2, ZeroVec, ZeroMat)

\* Variant: the assert is the penalty evaluator's, derivatives in [0, 1, 2].
LabelConstraintCall_WideAssert(c, h, x, derivatives) ==
  IF derivatives \notin {0, 1, 2} THEN Raised(h)
  ELSE LET h1 == SetDofs(h, SurfaceRef, x)
           l == LabelJ(h1)
           rl == l - c.targetlabel
           val2 == Sq(rl)
       IN IF derivatives # 0
          THEN LET dl == LabeldJ(h1)
                   dval == [i \in Idx |-> rl * dl[i]]
               IN Returned(h1, 2, val2, dval, ZeroMat)
          ELSE Returned(h1, 1, val2, ZeroVec, ZeroMat)

\* qfm_label_constraint(x, derivatives)
LabelConstraintCall(c, h, x, derivatives) ==
  IF derivatives \notin {0, 1} THEN Raised(h)
  ELSE LET h1 == SetDofs(h, SurfaceRef, x)
           l == LabelJ(h1)
           rl == l - c.targetlabel
           val2 == Sq(rl)
       IN IF derivatives # 0
          THEN LET dl == LabeldJ(h1)
                   dval == [i \in Idx |-> rl * dl[i]]
               IN Returned(h1, 2, val2, dval, ZeroMat)
          ELSE Returned(h1, 1, val2, ZeroVec, ZeroMat)

\* Variant: QfmResidual is built and read before s.set_dofs(sdofs).
ObjectiveCall_ReadBeforeSet(c, h, x, derivatives) ==
  IF derivatives \notin {0, 1} THEN Raised(h)
  ELSE LET h1 == SetDofs(h, SurfaceRef, x)
           r == QfmJ(h, c.bs)
       IN IF derivatives = 0
          THEN [Returned(h1, 1, 2 * r, ZeroVec, ZeroMat)
                  EXCEPT !.seen = h[SurfaceRef]]
          ELSE LET dr == QfmdJ(h, c.bs)
               IN [Returned(h1, 2, 2 * r, dr, ZeroMat)
                     EXCEPT !.seen = h[SurfaceRef]]

\* qfm_objective(x, derivatives)
ObjectiveCall(c, h, x, derivatives) ==
  IF derivatives \notin {0, 1} THEN Raised(h)
  ELSE LET h1 == SetDofs(h, SurfaceRef, x)
           r == QfmJ(h1, c.bs)
       IN IF derivatives = 0
          THEN Returned(h1, 1, 2 * r, ZeroVec, ZeroMat)
          ELSE LET dr == QfmdJ(h1, c.bs)
               IN Returned(h1, 2, 2 * r, dr, ZeroMat)

\* Variant: the value leaves constraint_weight out.
PenaltyCall_NoWeight(c, h, x, derivatives, constraint_weight) ==
  IF derivatives \notin {0, 1, 2} THEN Raised(h)
  ELSE LET h1 == SetDofs(h, SurfaceRef, x)
           r == QfmJ(h1, c.bs)
           l == LabelJ(h1)
           rl == l - c.targetlabel
           val2 == 2 * r + Sq(rl)
           dr == QfmdJ(h1, c.bs)
           dl == LabeldJ(h1)
           dval == [i \in Idx |-> dr[i] + constraint_weight * rl * dl[i]]
           d2r == Qfmd2J(h1, c.bs)
           d2l == Labeld2J(h1)
           d2val == [i \in Idx |-> [j \in Idx |->
                       d2r[i][j] + constraint_weight * rl * d2l[i][j]
                       + constraint_weight * dl[i] * dl[j]]]
       IN IF derivatives = 0 THEN Returned(h1, 1, val2, ZeroVec, ZeroMat)
          ELSE IF derivatives = 1 THEN Returned(h1, 2, val2, dval, ZeroMat)
          ELSE Returned(h1, 3, val2, dval, d2val)

\* Variant: the label is read before s.set_dofs(sdofs).
PenaltyCall_StaleLabel(c, h, x, derivatives, constraint_weight) ==
  IF derivatives \notin {0, 1, 2} THEN Raised(h)
  ELSE LET h1 == SetDofs(h, SurfaceRef, x)
           r == QfmJ(h1, c.bs)
           l == LabelJ(h)
           rl == l - c.targetlabel
           val2 == 2 * r + constraint_weight * Sq(rl)
           dr == QfmdJ(h1, c.bs)
           dl == LabeldJ(h1)
           dval == [i \in Idx |-> dr[i] + constraint_weight * rl * dl[i]]
           d2r == Qfmd2J(h1, c.bs)
           d2l == Labeld2J(h1)
           d2val == [i \in Idx |-> [j \in Idx |->
                       d2r[i][j] + constraint_weight * rl * d2l[i][j]
                       + constraint_weight * dl[i] * dl[j]]]
       IN IF derivatives = 0 THEN Returned(h1, 1, val2, ZeroVec, ZeroMat)
          ELSE IF derivatives = 1 THEN Returned(h1, 2, val2, dval, ZeroMat)
          ELSE Returned(h1, 3, val2, dval, d2val)

\* Variant: the gradient's label term leaves rl out.
PenaltyCall_GradNoRl(c, h, x, derivatives, constraint_weight) ==
  IF derivatives \notin {0, 1, 2} THEN Raised(h)
  ELSE LET h1 == SetDofs(h, SurfaceRef, x)
           r == QfmJ(h1, c.bs)
           l == LabelJ(h1)
           rl == l - c.targetlabel
           val2 == 2 * r + constraint_weight * Sq(rl)
           dr == QfmdJ(h1, c.bs)
           dl == LabeldJ(h1)
           dval == [i \in Idx |-> dr[i] + constraint_weight * dl[i]]
           d2r == Qfmd2J(h1, c.bs)
           d2l == Labeld2J(h1)
           d2val == [i \in Idx |-> [j \in Idx |->
                       d2r[i][j] + constraint_weight * rl * d2l[i][j]
                       + constraint_weight * dl[i] * dl[j]]]
       IN IF derivatives = 0 THEN Returned(h1, 1, val2, ZeroVec, ZeroMat)
          ELSE IF derivatives = 1 THEN Returned(h1, 2, val2, dval, ZeroMat)
          ELSE Returned(h1, 3, val2, dval, d2val)

\* qfm_penalty_constraints(x, derivatives, constraint_weight)
PenaltyCall(c, h, x, derivatives, constraint_weight) ==
  IF derivatives \notin {0, 1, 2} THEN Raised(h)
  ELSE LET h1 == SetDofs(h, SurfaceRef, x)
           r == QfmJ(h1, c.bs)
           l == LabelJ(h1)
           rl == l - c.targetlabel
           val2 == 2 * r + constraint_weight * Sq(rl)
           dr == QfmdJ(h1, c.bs)
           dl == LabeldJ(h1)
           dval == [i \in Idx |-> dr[i] + constraint_weight * rl * dl[i]]
           d2r == Qfmd2J(h1, c.bs)
           d2l == Labeld2J(h1)
           d2val == [i \in Idx |-> [j \in Idx |->
                       d2r[i][j] + constraint_weight * rl * d2l[i][j]
                       + constraint_weight * dl[i] * dl[j]]]
       IN IF derivatives = 0 THEN Returned(h1, 1, val2, ZeroVec, ZeroMat)
          ELSE IF derivatives = 1 THEN Returned(h1, 2, val2, dval, ZeroMat)
          ELSE Returned(h1, 3, val2, dval, d2val)

\* ------------------------------------------------------- solver callbacks
\* fun = lambda x: self.qfm_penalty_constraints(x, derivatives=1, constraint_weight=...)
LBFGSFun(c, h, x, constraint_weight) == PenaltyCall(c, h, x, 1, constraint_weight)

\* fun = lambda x: self.qfm_objective(x, derivatives=1)
SLSQPFun(c, h, x) == ObjectiveCall(c, h, x, 1)

\* Variant: con returns the raw deviation label - targetlabel.
SLSQPCon_RawDeviation(c, h, x) ==
  LET o == LabelConstraintCall(c, h, x, 1)
  IN [o EXCEPT !.shape = 1, !.grad = ZeroVec,
               !.val2 = 2 * (LabelJ(o.heap) - c.targetlabel)]

\* con = lambda x: self.qfm_label_constraint(x, derivatives=1)[0]
SLSQPCon(c, h, x) ==
  LET o == LabelConstraintCall(c, h, x, 1)
  IN [o EXCEPT !.shape = 1, !.grad = ZeroVec]

\* dcon = lambda x: self.qfm_label_constraint(x, derivatives=1)[1]
SLSQPDcon(c, h, x) ==
  LET o == LabelConstraintCall(c, h, x, 1)
  IN [o EXCEPT !.shape = 1, !.val2 = 0]

\* ------------------------------------------------------ the drivers' tails
\* The OptimizeResult minimize() returns: some point the solver evaluated
\* fun at, with the value and gradient fun returned there.
SolverResult(r, ok) ==
  [x |-> r.cand.x, fun2 |-> r.cand.fun2, jac |-> r.cand.jac, nit |-> r.n,
   success |-> ok]

\* Variant: s.set_dofs(res.x) is left out.
LBFGSFinish_NoSetDofs(h, res) ==
  [heap |-> h,
   resdict |-> [fun2 |-> res.fun2, gradient |-> res.jac, iter |-> res.nit,
                info |-> res, success |-> res.success, s |-> SurfaceRef]]

\* Variant: resdict['s'] is a copy of the surface, made at the optimum.
LBFGSFinish_CopySurface(h, res) ==
  [heap |-> (CopyRef :> res.x) @@ SetDofs(h, SurfaceRef, res.x),
   resdict |-> [fun2 |-> res.fun2, gradient |-> res.jac, iter |-> res.nit,
                info |-> res, success |-> res.success, s |-> CopyRef]]

\* resdict = {...}; s.set_dofs(res.x); resdict['s'] = s
LBFGSFinish(h, res) ==
  [heap |-> SetDofs(h, SurfaceRef, res.x),
   resdict |-> [fun2 |-> res.fun2, gradient |-> res.jac, iter |-> res.nit,
                info |-> res, success |-> res.success, s |-> SurfaceRef]]

\* Variant: the record reports success whatever the solver said.
SLSQPFinish_AlwaysSuccess(h, res) ==
  [heap |-> SetDofs(h, SurfaceRef, res.x),
   resdict |-> [fun2 |-> res.fun2, gradient |-> res.jac, iter |-> res.nit,
                info |-> res, success |-> TRUE, s |-> SurfaceRef]]

\* resdict = {...}; s.set_dofs(res.x); resdict['s'] = s
SLSQPFinish(h, res) ==
  [heap |-> SetDofs(h, SurfaceRef, res.x),
   resdict |-> [fun2 |-> res.fun2, gradient |-> res.jac, iter |-> res.nit,
                info |-> res, success |-> res.success, s |-> SurfaceRef]]


\* ------------------------------------------------------------------ state
Evaluators == {"qfm_label_constraint", "qfm_objective", "qfm_penalty_constraints"}
Drivers == {"minimize_qfm_penalty_constraints_LBFGS",
            "minimize_qfm_exact_constraints_SLSQP"}

\* What the last operation did.  via tells who called: the user, or the
\* solver through the lambda fun, con or dcon.  tried is the surface's dofs
\* at the operation's last read of them: for a driver, the dofs minimize()
\* left behind, before the driver's own set_dofs.
EvalEvent(ev, via, x, d, w, o) ==
  [ev |-> ev, via |-> via, x |-> x, d |-> d, w |-> w, raised |-> o.raised,
   shape |-> o.shape, val2 |-> o.val2, grad |-> o.grad, hess |-> o.hess,
   seen |-> o.seen, tried |-> o.seen, solverOk |-> FALSE, solves |-> 0]

DriverEvent(ev, w, h, r, res, ok) ==
  [ev |-> ev, via |-> "user", x |-> res.x, d |-> 1, w |-> w, raised |-> FALSE,
   shape |-> 1, val2 |-> res.fun2, grad |-> res.jac, hess |-> ZeroMat,
   seen |-> h[SurfaceRef], tried |-> h[SurfaceRef], solverOk |-> ok,
   solves |-> r.solves]

NoEvent ==
  [ev |-> "none", via |-> "user", x |-> ZeroVec, d |-> 0, w |-> 0,
   raised |-> FALSE, shape |-> 0, val2 |-> 0, grad |-> ZeroVec,
   hess |-> ZeroMat, seen |-> ZeroVec, tried |-> ZeroVec, solverOk |-> FALSE,
   solves |-> 0]

NoRun ==
  [driver |-> "none", w |-> 0,
   cand |-> [x |-> ZeroVec, fun2 |-> 0, jac |-> ZeroVec], n |-> 0, solves |-> 0]

NoProbe == [on |-> FALSE, x |-> ZeroVec, d |-> 0]
Probes == [on : {TRUE}, x : DofVectors, d : {0, 1}]

Idle == run.driver = "none"

\* The part of an event that is the call's result.
Result(e) ==
  [raised |-> e.raised, shape |-> e.shape, val2 |-> e.val2, grad |-> e.grad,
   hess |-> e.hess]

\* The call about to run has the arguments of the call that ran last.
Repeats(ev, x, d, w) ==
  /\ ret.ev = ev
  /\ ret.via = "user"
  /\ ret.x = x
  /\ ret.d = d
  /\ ret.w = w

\* memo keeps the first result each of the two plain evaluators returned at
\* the probe.
MemoAfter(ev, x, d, o) ==
  IF probe.on /\ x = probe.x /\ d = probe.d /\ ~o.raised /\ memo[ev] = <<>>
  THEN [memo EXCEPT ![ev] = <<[val2 |-> o.val2, grad |-> o.grad]>>]
  ELSE memo

InitCommon ==
  /\ cfg \in Configs
  /\ heap \in [{SurfaceRef} -> DofVectors]
  /\ ret = NoEvent
  /\ run = NoRun
  /\ rec = <<>>
  /\ held = <<>>
  /\ rep = FALSE
  /\ memo = [ev \in {"qfm_label_constraint", "qfm_objective"} |-> <<>>]

Init == InitCommon /\ probe = NoProbe
InitEval == InitCommon /\ probe \in Probes

\* ---------------------------------------------------------------- actions
qfm_label_constraint(x, derivatives) ==
  /\ Idle
  /\ LET o == LabelConstraintCall(cfg, heap, x, derivatives)
     IN /\ heap' = o.heap
        /\ ret' = EvalEvent("qfm_label_constraint", "user", x, derivatives, 0, o)
        /\ memo' = MemoAfter("qfm_label_constraint", x, derivatives, o)
  /\ rep' = Repeats("qfm_label_constraint", x, derivatives, 0)
  /\ rec' = <<>>
  /\ UNCHANGED <<cfg, run, held, probe>>

qfm_objective(x, derivatives) ==
  /\ Idle
  /\ LET o == ObjectiveCall(cfg, heap, x, derivatives)
     IN /\ heap' = o.heap
        /\ ret' = EvalEvent("qfm_objective", "user", x, derivatives, 0, o)
        /\ memo' = MemoAfter("qfm_objective", x, derivatives, o)
  /\ rep' = Repeats("qfm_objective", x, derivatives, 0)
  /\ rec' = <<>>
  /\ UNCHANGED <<cfg, run, held, probe>>

qfm_penalty_constraints(x, derivatives, constraint_weight) ==
  /\ Idle
  /\ LET o == PenaltyCall(cfg, heap, x, derivatives, constraint_weight)
     IN /\ heap' = o.heap
        /\ ret' = EvalEvent("qfm_penalty_constraints", "user", x, derivatives,
                            constraint_weight, o)
  /\ rep' = Repeats("qfm_penalty_constraints", x, derivatives, constraint_weight)
  /\ rec' = <<>>
  /\ UNCHANGED <<cfg, run, held, probe, memo>>

\* minimize_qfm_penalty_constraints_LBFGS: x = s.get_dofs(), then minimize()
\* starts by evaluating fun at x.
LBFGS_Start(constraint_weight) ==
  /\ Idle
  /\ LET x == GetDofs(heap, SurfaceRef)
         o == LBFGSFun(cfg, heap, x, constraint_weight)
     IN /\ heap' = o.heap
        /\ ret' = EvalEvent("qfm_penalty_constraints", "fun", x, 1,
                            constraint_weight, o)
        /\ run' = [driver |-> "LBFGS", w |-> constraint_weight,
                   cand |-> [x |-> x, fun2 |-> o.val2, jac |-> o.grad],
                   n |-> 1, solves |-> 1]
  /\ rep' = FALSE
  /\ rec' = <<>>
  /\ UNCHANGED <<cfg, held, probe, memo>>

\* The solver evaluates fun at a trial point y and either moves its iterate
\* there or rejects the point.
LBFGS_Fun(y, accept) ==
  /\ run.driver = "LBFGS"
  /\ run.n < MaxEvals
  /\ LET o == LBFGSFun(cfg, heap, y, run.w)
     IN /\ heap' = o.heap
        /\ ret' = EvalEvent("qfm_penalty_constraints", "fun", y, 1, run.w, o)
        /\ run' = [run EXCEPT
                     !.cand = IF accept
                              THEN [x |-> y, fun2 |-> o.val2, jac |-> o.grad]
                              ELSE @,
                     !.n = @ + 1]
  /\ UNCHANGED <<cfg, rec, held, rep, probe, memo>>

\* minimize() returns, converged or not; the driver builds resdict.
LBFGS_Return(ok) ==
  /\ run.driver = "LBFGS"
  /\ LET res == SolverResult(run, ok)
         f == LBFGSFinish(heap, res)
     IN /\ heap' = f.heap
        /\ rec' = <<f.resdict>>
        /\ held' = IF held = <<>>
                   THEN <<[x |-> f.resdict.info.x, s |-> f.resdict.s]>>
                   ELSE held
        /\ ret' = DriverEvent("minimize_qfm_penalty_constraints_LBFGS", run.w,
                              heap, run, res, ok)
  /\ run' = NoRun
  /\ UNCHANGED <<cfg, rep, probe, memo>>

\* minimize_qfm_exact_constraints_SLSQP: x = s.get_dofs(), then minimize()
\* starts by evaluating fun at x.
SLSQP_Start ==
  /\ Idle
  /\ LET x == GetDofs(heap, SurfaceRef)
         o == SLSQPFun(cfg, heap, x)
     IN /\ heap' = o.heap
        /\ ret' = EvalEvent("qfm_objective", "fun", x, 1, 0, o)
        /\ run' = [driver |-> "SLSQP", w |-> 0,
                   cand |-> [x |-> x, fun2 |-> o.val2, jac |-> o.grad],
                   n |-> 1, solves |-> 1]
  /\ rep' = FALSE
  /\ rec' = <<>>
  /\ UNCHANGED <<cfg, held, probe, memo>>

SLSQP_Fun(y, accept) ==
  /\ run.driver = "SLSQP"
  /\ run.n < MaxEvals
  /\ LET o == SLSQPFun(cfg, heap, y)
     IN /\ heap' = o.heap
        /\ ret' = EvalEvent("qfm_objective", "fun", y, 1, 0, o)
        /\ run' = [run EXCEPT
                     !.cand = IF accept
                              THEN [x |-> y, fun2 |-> o.val2, jac |-> o.grad]
                              ELSE @,
                     !.n = @ + 1]
  /\ UNCHANGED <<cfg, rec, held, rep, probe, memo>>

\* The solver evaluates the equality constraint at y.
SLSQP_Con(y) ==
  /\ run.driver = "SLSQP"
  /\ run.n < MaxEvals
  /\ LET o == SLSQPCon(cfg, heap, y)
     IN /\ heap' = o.heap
        /\ ret' = EvalEvent("qfm_label_constraint", "con", y, 1, 0, o)
  /\ run' = [run EXCEPT !.n = @ + 1]
  /\ UNCHANGED <<cfg, rec, held, rep, probe, memo>>

\* The solver evaluates the constraint's Jacobian at y.
SLSQP_Dcon(y) ==
  /\ run.driver = "SLSQP"
  /\ run.n < MaxEvals
  /\ LET o == SLSQPDcon(cfg, heap, y)
     IN /\ heap' = o.heap
        /\ ret' = EvalEvent("qfm_label_constraint", "dcon", y, 1, 0, o)
  /\ run' = [run EXCEPT !.n = @ + 1]
  /\ UNCHANGED <<cfg, rec, held, rep, probe, memo>>

SLSQP_Return(ok) ==
  /\ run.driver = "SLSQP"
  /\ LET res == SolverResult(run, ok)
         f == SLSQPFinish(heap, res)
     IN /\ heap' = f.heap
        /\ rec' = <<f.resdict>>
        /\ held' = IF held = <<>>
                   THEN <<[x |-> f.resdict.info.x, s |-> f.resdict.s]>>
                   ELSE held
        /\ ret' = DriverEvent("minimize_qfm_exact_constraints_SLSQP", 0,
                              heap, run, res, ok)
  /\ run' = NoRun
  /\ UNCHANGED <<cfg, rep, probe, memo>>

NextEval ==
  \/ \E x \in DofVectors, d \in DerivativeOrders : qfm_label_constraint(x, d)
  \/ \E x \in DofVectors, d \in DerivativeOrders : qfm_objective(x, d)
  \/ \E x \in DofVectors, d \in DerivativeOrders, w \in Weights :
       qfm_penalty_constraints(x, d, w)

Next ==
  \/ \E x \in DofVectors, d \in DerivativeOrders : qfm_label_constraint(x, d)
  \/ \E x \in DofVectors, d \in DerivativeOrders : qfm_objective(x, d)
  \/ \E x \in DofVectors, d \in DerivativeOrders, w \in Weights :
       qfm_penalty_constraints(x, d, w)
  \/ \E w \in Weights : LBFGS_Start(w)
  \/ \E y \in DofVectors, accept \in BOOLEAN : LBFGS_Fun(y, accept)
  \/ \E ok \in BOOLEAN : LBFGS_Return(ok)
  \/ SLSQP_Start
  \/ \E y \in DofVectors, accept \in BOOLEAN : SLSQP_Fun(y, accept)
  \/ \E y \in DofVectors : SLSQP_Con(y)
  \/ \E y \in DofVectors : SLSQP_Dcon(y)
  \/ \E ok \in BOOLEAN : SLSQP_Return(ok)

Spec == Init /\ [][Next]_vars
SpecEval == InitEval /\ [][NextEval]_vars

\* ----------------------------------------------------------------- claims
\* The functionals' values at a dof vector x, whatever the surface holds.
Dev(x) == LabelFn(x) - cfg.targetlabel
IsEval(e) == e.ev \in Evaluators
UserEval(e, ev) == e.ev = ev /\ e.via = "user" /\ ~e.raised
InvalidOrder(ev, d) ==
  IF ev = "qfm_penalty_constraints" THEN d \notin {0, 1, 2} ELSE d \notin {0, 1}
MemoSet ==
  /\ probe.on
  /\ memo["qfm_label_constraint"] # <<>>
  /\ memo["qfm_objective"] # <<>>

\* C1: when an evaluator has returned a value, called by the user or by the
\* solver through fun, con or dcon, the surface's dofs equal the call's x and
\* the label and residual were read from a surface that already held x.
C1_SurfaceHoldsX ==
  (IsEval(ret) /\ ~ret.raised) =>
     /\ heap[SurfaceRef] = ret.x
     /\ ret.seen = ret.x

\* C1 witness: a constraint callback returned at a point other than the
\* optimum an earlier driver run had left in the surface.
C1_Witness ==
  /\ ret.ev = "qfm_label_constraint"
  /\ ret.via = "con"
  /\ held # <<>>
  /\ held[1].x # ret.x
  /\ heap[SurfaceRef] = ret.x

\* C2: qfm_label_constraint(x, 0) returns the single scalar
\* 0.5 * (label(x) - targetlabel)^2, which is never negative.
C2_LabelConstraintValue ==
  (UserEval(ret, "qfm_label_constraint") /\ ret.d = 0) =>
     /\ ret.shape = 1
     /\ ret.val2 = Sq(Dev(ret.x))
     /\ ret.val2 >= 0

\* C2 witness: an order-0 call returned a positive value at a point whose
\* label is below the target.
C2_Witness ==
  /\ UserEval(ret, "qfm_label_constraint")
  /\ ret.d = 0
  /\ Dev(ret.x) < 0
  /\ ret.val2 > 0

\* C3: qfm_penalty_constraints(x, 0, w) equals what qfm_objective(x, 0)
\* returned plus w times what qfm_label_constraint(x, 0) returned; where
\* label(x) = targetlabel it equals what qfm_objective(x, 0) returned.
C3_PenaltyIsSum ==
  (/\ UserEval(ret, "qfm_penalty_constraints")
   /\ ret.d = 0
   /\ MemoSet
   /\ probe.d = 0
   /\ probe.x = ret.x) =>
     /\ ret.val2 = memo["qfm_objective"][1].val2
                   + ret.w * memo["qfm_label_constraint"][1].val2
     /\ Dev(ret.x) = 0 => ret.val2 = memo["qfm_objective"][1].val2

\* C3 witness: the three order-0 calls were made at one x off the target,
\* the penalty one with weight 2.
C3_Witness ==
  /\ UserEval(ret, "qfm_penalty_constraints")
  /\ ret.d = 0
  /\ ret.w = 2
  /\ MemoSet
  /\ probe.d = 0
  /\ probe.x = ret.x
  /\ memo["qfm_label_constraint"][1].val2 > 0
  /\ memo["qfm_objective"][1].val2 > 0

\* C4: a user's evaluator call with an invalid derivative order raises,
\* returns no component, and leaves the surface's dofs as they were.
C4_InvalidOrderFailsFast ==
  [][(/\ IsEval(ret')
      /\ ret'.via = "user"
      /\ InvalidOrder(ret'.ev, ret'.d)) =>
        /\ ret'.raised
        /\ ret'.shape = 0
        /\ heap' = heap]_vars

\* C4 witness: qfm_label_constraint was called with order 2 and an x the
\* surface does not hold.
C4_Witness ==
  /\ ret.ev = "qfm_label_constraint"
  /\ ret.via = "user"
  /\ ret.d = 2
  /\ ret.raised
  /\ heap[SurfaceRef] # ret.x

\* C5: when a driver has returned, the surface's dofs equal the solver's
\* returned x, and the record's fun and gradient are the objective's value
\* and gradient at those dofs.
C5_SurfaceAtReturnedOptimum ==
  ret.ev \in Drivers =>
     /\ Len(rec) = 1
     /\ heap[SurfaceRef] = rec[1].info.x
     /\ heap[rec[1].s] = rec[1].info.x
     /\ LET d == heap[SurfaceRef]
            w == ret.w
        IN IF ret.ev = "minimize_qfm_penalty_constraints_LBFGS"
           THEN /\ rec[1].fun2 = 2 * QfmFn(d, cfg.bs) + w * Sq(Dev(d))
                /\ rec[1].gradient =
                     [i \in Idx |-> QfmGradFn(d, cfg.bs)[i]
                                    + w * Dev(d) * LabelGradFn(d)[i]]
           ELSE /\ rec[1].fun2 = 2 * QfmFn(d, cfg.bs)
                /\ rec[1].gradient = QfmGradFn(d, cfg.bs)

\* C5 witness: a driver returned a converged result whose x is not the
\* point the solver evaluated last.
C5_Witness ==
  /\ ret.ev \in Drivers
  /\ ret.solverOk
  /\ Len(rec) = 1
  /\ ret.tried # rec[1].info.x
  /\ heap[SurfaceRef] = rec[1].info.x

\* C6 as stated: the equality constraint handed to SLSQP returns the raw
\* deviation label(x) - targetlabel.
C6_ConIsRawDeviation ==
  ret.via = "con" => ret.val2 = 2 * Dev(ret.x)

\* C6 amended: the equality constraint handed to SLSQP returns the squared
\* penalty 0.5 * (label(x) - targetlabel)^2, and the Jacobian handed to it
\* is (label(x) - targetlabel) * dlabel(x), the gradient of that value.
C6_ConIsSquaredPenalty ==
  /\ ret.via = "con" =>
       /\ ret.shape = 1
       /\ ret.val2 = Sq(Dev(ret.x))
  /\ ret.via = "dcon" =>
       /\ ret.shape = 1
       /\ ret.grad = [i \in Idx |-> Dev(ret.x) * LabelGradFn(ret.x)[i]]

\* C6 witness: con returned at a point where the squared penalty and the
\* raw deviation differ.
C6_Witness ==
  /\ ret.via = "con"
  /\ ret.val2 = Sq(Dev(ret.x))
  /\ ret.val2 # 2 * Dev(ret.x)

\* C7 as stated: when the solver reports non-convergence the driver returns
\* a record with success false and the surface holds the point the solver
\* evaluated last.
C7_SurfaceHoldsLastTried ==
  (ret.ev \in Drivers /\ ~ret.solverOk) =>
     /\ ~ret.raised
     /\ Len(rec) = 1
     /\ ~rec[1].success
     /\ heap[SurfaceRef] = ret.tried

\* C7 amended: when the solver reports non-convergence the driver raises
\* nothing and has called minimize() once; it returns a record with success
\* false and the solver's result as info, and the surface holds the solver's
\* returned x, which need not be the point the solver evaluated last.
C7_NonConvergenceReturnsRecord ==
  (ret.ev \in Drivers /\ ~ret.solverOk) =>
     /\ ~ret.raised
     /\ ret.solves = 1
     /\ Len(rec) = 1
     /\ ~rec[1].success
     /\ ~rec[1].info.success
     /\ rec[1].info.x = ret.x
     /\ heap[SurfaceRef] = rec[1].info.x

\* C7 witness: a driver returned an unconverged result whose x is not the
\* point the solver evaluated last.
C7_Witness ==
  /\ ret.ev \in Drivers
  /\ ~ret.solverOk
  /\ Len(rec) = 1
  /\ ~rec[1].success
  /\ ret.tried # heap[SurfaceRef]

\* C8: an evaluator call that repeats the call before it, argument for
\* argument, yields the result that call yielded.
C8_Idempotent ==
  [][rep' => Result(ret') = Result(ret)]_vars

\* C8 witness: an order-2 penalty call was repeated after an earlier driver
\* run.
C8_Witness ==
  /\ rep
  /\ UserEval(ret, "qfm_penalty_constraints")
  /\ ret.d = 2
  /\ held # <<>>

\* C9: qfm_penalty_constraints(x, 1, w) returns the pair of the value
\* r + 0.5*w*rl^2 and the gradient dr + w*rl*dl, and that gradient is what
\* qfm_objective(x, 1) returned plus w times what qfm_label_constraint(x, 1)
\* returned.
C9_PenaltyGradient ==
  (UserEval(ret, "qfm_penalty_constraints") /\ ret.d = 1) =>
     /\ ret.shape = 2
     /\ ret.val2 = 2 * QfmFn(ret.x, cfg.bs) + ret.w * Sq(Dev(ret.x))
     /\ ret.grad = [i \in Idx |-> QfmGradFn(ret.x, cfg.bs)[i]
                                  + ret.w * Dev(ret.x) * LabelGradFn(ret.x)[i]]
     /\ (MemoSet /\ probe.d = 1 /\ probe.x = ret.x) =>
          ret.grad = [i \in Idx |->
                        memo["qfm_objective"][1].grad[i]
                        + ret.w * memo["qfm_label_constraint"][1].grad[i]]

\* C9 witness: the three order-1 calls were made at one x off the target,
\* the penalty one with weight 2.
C9_Witness ==
  /\ UserEval(ret, "qfm_penalty_constraints")
  /\ ret.d = 1
  /\ ret.w = 2
  /\ MemoSet
  /\ probe.d = 1
  /\ probe.x = ret.x
  /\ Dev(ret.x) # 0
  /\ memo["qfm_label_constraint"][1].grad # ZeroVec

\* C10: the 's' of a record a driver returned is the orchestrator's surface:
\* after a later evaluator call it shows that call's x, and after a later
\* driver call the later optimum.
C10_RecordSharesSurface ==
  held # <<>> =>
     /\ (IsEval(ret) /\ ~ret.raised) => heap[held[1].s] = ret.x
     /\ ret.ev \in Drivers => heap[held[1].s] = rec[1].info.x

\* C10 witness: after a later evaluator call the kept record's surface no
\* longer holds the optimum the record reported.
C10_Witness ==
  /\ held # <<>>
  /\ Idle
  /\ UserEval(ret, "qfm_objective")
  /\ heap[held[1].s] = ret.x
  /\ heap[held[1].s] # held[1].x

====
